---- MODULE Spec2Model ----
\* A model of src/main.cpp: BackupSystem (loadConfig, start, createBackup,
\* getRandomWebhook, getFileSizeInMB, uploadToFileIO, sendToWebhook) and main.
EXTENDS Integers, Sequences, FiniteSets, TLC

\* ---------------------------------------------------------------- bounds
\* The largest number of webhook URLs a modelled config.json lists.
MaxWebhooks == 2

\* ------------------------------------------------------- program constants
\* const double MAX_DIRECT_UPLOAD_SIZE = 23.0; // MB
MAX_DIRECT_UPLOAD_SIZE == 23

\* The divisor of getFileSizeInMB: (1024 * 1024).
BytesPerMB == 1024 * 1024

\* The two callers of createBackup: the loop of start(), and a second tick
\* that enters createBackup while the loop's cycle may be running (TickSpec).
Main == "main"
Tick == "tick"
Callers == {Main, Tick}

\* ------------------------------------------------------------ environment
\* The i-th webhook URL of a config.json.
Url(i) == "https://discord.example/hook" \o ToString(i)

\* The `webhooks` arrays of the modelled config files: 0..MaxWebhooks URLs.
WebhookLists == {[i \in 1..n |-> Url(i)] : n \in 0..MaxWebhooks}

\* The `cooldownDuration` strings of the modelled config files: the */N
\* form, another cron form, N zero, N negative, no number after "*/", N
\* beyond the range of int, and */N with nothing after it.
CooldownStrings ==
    {"*/15 * * * *", "0 3 * * *", "*/0 * * * *", "*/-5 * * * *",
     "*/x * * * *", "*/99999999999 * * * *", "*/30"}

\* The config.json files main may find.  parses: the file is readable JSON;
\* hasFolderToBackup, hasWebhooks, hasBackupFolder, hasCooldown: the key is
\* present; cooldownDuration: the value of that key;
\* dirOk: fs::create_directories(backupFolder) does not throw.
ConfigFiles ==
    {[parses |-> TRUE, hasFolderToBackup |-> TRUE, hasWebhooks |-> TRUE,
      webhooks |-> w, hasBackupFolder |-> b, dirOk |-> TRUE,
      hasCooldown |-> FALSE, cooldownDuration |-> ""] :
        w \in WebhookLists, b \in BOOLEAN}
    \cup
    {[parses |-> TRUE, hasFolderToBackup |-> TRUE, hasWebhooks |-> TRUE,
      webhooks |-> w, hasBackupFolder |-> FALSE, dirOk |-> TRUE,
      hasCooldown |-> TRUE, cooldownDuration |-> c] :
        w \in WebhookLists, c \in CooldownStrings}
    \cup
    {[parses |-> p, hasFolderToBackup |-> f, hasWebhooks |-> h,
      webhooks |-> <<Url(1)>>, hasBackupFolder |-> FALSE, dirOk |-> d,
      hasCooldown |-> FALSE, cooldownDuration |-> ""] :
        p \in BOOLEAN, f \in BOOLEAN, h \in BOOLEAN, d \in BOOLEAN}

\* The config files of TickSpec: those without a `cooldownDuration` key.
TickConfigFiles == {f \in ConfigFiles : ~f.hasCooldown}

\* The artifact on disk: its size in bytes, or NoFile when fs::file_size
\* reports an error (the file is missing or cannot be examined).
NoFile == -1
Threshold == MAX_DIRECT_UPLOAD_SIZE * BytesPerMB
ArtifactSizes ==
    {0, 5 * BytesPerMB, Threshold - 1, Threshold, Threshold + 1, 30 * BytesPerMB}

\* The outcomes of one libcurl exchange: curl_easy_init returned null
\* (NO_HANDLE, nothing is performed), curl_easy_perform returned CURLE_OK with
\* a success or a non-success HTTP status, or it returned a transport error.
CurlOutcomes ==
    {[res |-> "NO_HANDLE", http |-> "none"],
     [res |-> "CURLE_OK", http |-> "2xx"],
     [res |-> "CURLE_OK", http |-> "5xx"],
     [res |-> "CURLE_ERR", http |-> "none"]}

\* The bodies file.io may answer with.  json: the body parses as JSON;
\* link: what responseJson["link"] is ("string", "number", "missing", or
\* "notobject" when the document is not an object); value: the link string.
FileHostResponses ==
    {[json |-> FALSE, link |-> "none", value |-> ""],
     [json |-> TRUE, link |-> "string", value |-> "https://file.io/abc123"],
     [json |-> TRUE, link |-> "number", value |-> ""],
     [json |-> TRUE, link |-> "missing", value |-> ""],
     [json |-> TRUE, link |-> "notobject", value |-> ""]}

\* ------------------------------------------------------------------ state
VARIABLES
    pc,                 \* each caller's position
    configFile,         \* the config.json on disk
    exitCode,           \* the value main returned, or -1 while it runs
    folderToBackup,     \* BackupSystem::folderToBackup
    backupFolder,       \* BackupSystem::backupFolder
    webhooks,           \* BackupSystem::webhooks
    cooldownMinutes,    \* BackupSystem::cooldownMinutes
    isBackupInProgress, \* BackupSystem::isBackupInProgress
    artifact,           \* the size of backupFolder/backup.7z on disk, or NoFile
    result,             \* createBackup's local `result` (exit code of 7z)
    fileSize,           \* createBackup's local `fileSize`
    webhookUrl,         \* createBackup's local `webhookUrl`
    fileioLink,         \* createBackup's local `fileioLink`
    ret,                \* what the caller's last createBackup returned
    steps,              \* the steps of the caller's current cycle, in order
    uploads,            \* the uploadToFileIO calls of the current cycle
    posts,              \* the sendToWebhook calls of the current cycle
    out,                \* the lines the current cycle wrote to std::cout
    previous            \* how the loop's previous cycle ended ("none" at first)

config == <<configFile, exitCode, folderToBackup, backupFolder, webhooks, cooldownMinutes>>
locals == <<result, fileSize, webhookUrl, fileioLink>>
history == <<steps, uploads, posts, out>>
vars == <<pc, config, isBackupInProgress, artifact, locals, ret, history, previous>>

\* ------------------------------------------------------- pure functions
\* getRandomWebhook: "" for an empty list, else webhooks[rand() % size].
GetRandomWebhook(list) ==
    IF Len(list) = 0 THEN {""} ELSE {list[i] : i \in 1..Len(list)}

\* A faulty variant of GetFileSizeInMB: the error code is not examined, and
\* the size file_size reports on error (all bits set) is used.
GetFileSizeUnchecked(file) ==
    [num |-> IF file = NoFile THEN 2147483647 ELSE file, den |-> BytesPerMB]

\* getFileSizeInMB: 0.0 on error, else size / (1024 * 1024), kept exact as
\* the fraction num / den (the division by 2^20 is exact in a double).
GetFileSizeInMB(file) ==
    IF file = NoFile THEN [num |-> 0, den |-> BytesPerMB]
    ELSE [num |-> file, den |-> BytesPerMB]

\* A faulty variant of UsesRelay: the comparison is strict.
UsesRelayStrict(size) == size.num > MAX_DIRECT_UPLOAD_SIZE * size.den

\* if (fileSize >= MAX_DIRECT_UPLOAD_SIZE)
UsesRelay(size) == size.num >= MAX_DIRECT_UPLOAD_SIZE * size.den

\* std::string backupFilePath = backupFolder + "/" + backupFileName;
BackupFilePath(folder) == folder \o "/" \o "backup.7z"

\* s contains sub as a substring.
Contains(s, sub) ==
    \E i \in 1..(Len(s) - Len(sub) + 1) : SubSeq(s, i, i + Len(sub) - 1) = sub

\* ------------------------------------------------------------- std::stoi
\* The largest int.
INT_MAX == 2147483647

Char(s, i) == SubSeq(s, i, i)

IsDigit(c) == \E d \in 0..9 : Char("0123456789", d + 1) = c

DigitValue(c) == CHOOSE d \in 0..9 : Char("0123456789", d + 1) = c

\* std::isspace
IsSpace(c) == c \in {" ", "\t", "\n", "\r", "\f"}

RECURSIVE SkipSpaces(_, _)
SkipSpaces(s, i) ==
    IF i <= Len(s) /\ IsSpace(Char(s, i)) THEN SkipSpaces(s, i + 1) ELSE i

\* The digits of s from position i on, added to acc with sign sg; not ok
\* (std::out_of_range) when the number does not fit an int.
RECURSIVE Accumulate(_, _, _, _)
Accumulate(s, i, acc, sg) ==
    IF i > Len(s) \/ ~IsDigit(Char(s, i)) THEN [ok |-> TRUE, value |-> acc]
    ELSE LET d == DigitValue(Char(s, i))
             last == IF sg = 1 THEN INT_MAX % 10 ELSE (INT_MAX % 10) + 1
         IN IF \/ sg * acc > (INT_MAX \div 10)
               \/ (sg * acc = (INT_MAX \div 10) /\ d > last)
            THEN [ok |-> FALSE, value |-> 0]
            ELSE Accumulate(s, i + 1, acc * 10 + sg * d, sg)

\* std::stoi(s): leading white space is skipped, then an optional sign and
\* the longest run of digits are read, and what follows is ignored; not ok
\* (std::invalid_argument) when there is no digit.
Stoi(s) ==
    LET start == SkipSpaces(s, 1)
        signed == start <= Len(s) /\ Char(s, start) \in {"+", "-"}
        sg == IF signed /\ Char(s, start) = "-" THEN -1 ELSE 1
        first == IF signed THEN start + 1 ELSE start
    IN IF first > Len(s) \/ ~IsDigit(Char(s, first))
       THEN [ok |-> FALSE, value |-> 0]
       ELSE Accumulate(s, first, 0, sg)

\* ------------------------------------------------------------ loadConfig
\* std::string cooldownStr = config.value("cooldownDuration", "*/60 * * * *");
CooldownStr(cfg) ==
    IF cfg.hasCooldown THEN cfg.cooldownDuration ELSE "*/60 * * * *"

\* cooldownStr.find("*/") == 0
HasStepPrefix(str) == Len(str) >= 2 /\ SubSeq(str, 1, 2) = "*/"

\* cooldownMinutes = 60;
\* if (cooldownStr.find("*/") == 0) cooldownMinutes = std::stoi(cooldownStr.substr(2));
\* ok is false when std::stoi throws.
ParseCooldown(str) ==
    IF HasStepPrefix(str) THEN Stoi(SubSeq(str, 3, Len(str)))
    ELSE [ok |-> TRUE, value |-> 60]

\* A faulty variant of LoadConfigOk: a missing `webhooks` key is let through.
LoadConfigOkLax(cfg) ==
    cfg.parses /\ cfg.hasFolderToBackup
        /\ ParseCooldown(CooldownStr(cfg)).ok /\ cfg.dirOk

\* loadConfig's try block: config["folderToBackup"] and config["webhooks"]
\* throw when the key is missing, the stream extraction throws when the file
\* is not JSON, std::stoi throws when no number follows "*/" or it does not
\* fit an int, create_directories throws when the folder cannot be made;
\* every exception makes loadConfig return false.
LoadConfigOk(cfg) ==
    cfg.parses /\ cfg.hasFolderToBackup /\ cfg.hasWebhooks
        /\ ParseCooldown(CooldownStr(cfg)).ok /\ cfg.dirOk

\* backupFolder = config.value("backupFolder", "./backups");
ConfiguredBackupFolder(cfg) ==
    IF cfg.hasBackupFolder THEN "/mnt/backups" ELSE "./backups"

\* --------------------------------------------------------- uploadToFileIO
\* A faulty variant of UploadOk: the response is not examined.
UploadOkUnparsed(o, r) == o.res = "CURLE_OK"

\* A faulty variant of UploadOk: the CURLcode is not examined.
UploadOkAnyTransfer(o, r) == r.json /\ r.link = "string"

\* uploadToFileIO's return value: false without a handle or when
\* curl_easy_perform fails; otherwise true exactly when the response parses
\* as JSON and responseJson["link"] converts to a string (any exception of
\* json::parse or of the conversion is caught and gives false).
UploadOk(o, r) ==
    /\ o.res = "CURLE_OK"
    /\ r.json
    /\ r.link = "string"

\* ---------------------------------------------------------- sendToWebhook
\* std::string message = "autobackup by <@1025369998438453298>\n(" + filepath + ")";
Message(filepath) == "autobackup by <@1025369998438453298>\n(" \o filepath \o ")"

\* A faulty variant of LinkPostFilepath: the local path is passed.
LinkPostFilepathLocal(link, path) == path

\* return sendToWebhook(webhookUrl, fileioLink, true);   the `filepath`
\* argument of the link post is the link, not backupFilePath.
LinkPostFilepath(link, path) == link

\* The request sendToWebhook builds: a JSON body {"content": message} when
\* isFileIOLink, else a multipart form with the file at filepath.
WebhookRequest(url, filepath, isFileIOLink, o) ==
    [url |-> url,
     multipart |-> ~isFileIOLink,
     file |-> IF isFileIOLink THEN "" ELSE filepath,
     content |-> IF isFileIOLink THEN Message(filepath) ELSE "",
     res |-> o.res,
     http |-> o.http]

\* A faulty variant of SendResult: the CURLcode is ignored.
SendResultIgnored(o) == TRUE

\* return res == CURLE_OK;   (false as well when curl_easy_init gave null)
SendResult(o) == o.res = "CURLE_OK"

\* ----------------------------------------------------------- createBackup
\* A faulty variant of FlagAfterArchive: only a successful archive clears the flag.
FlagClearedOnSuccessOnly(code) == code # 0

\* A faulty variant of FlagAfterArchive: the flag is never cleared.
FlagNeverCleared(code) == TRUE

\* isBackupInProgress = false;   (right after std::system returns)
FlagAfterArchive(code) == FALSE

\* A faulty variant of ArchiveFailed: only a negative status counts.
ArchiveFailedNegative(code) == code < 0

\* if (result != 0)
ArchiveFailed(code) == code # 0

\* A faulty variant of Returned: the loop calls createBackup again at once.
ReturnedNoSleep(t) == "entered"

\* Where a caller is once its createBackup has returned: the loop of start()
\* goes to sleep_for(minutes(cooldownMinutes)), the second tick is over.
Returned(t) == IF t = Main THEN "sleeping" ELSE "idle"

Bool(b) == IF b THEN "true" ELSE "false"

\* A faulty variant of AfterUploadFailure: the upload is tried again.
AfterUploadFailureRetry(t) == "uploading"

\* if (uploadToFileIO(...)) { ... } return false;   the cycle is over.
AfterUploadFailure(t) == Returned(t)

\* The outcomes of curl_easy_perform on CURLOPT_URL = webhookUrl: libcurl
\* rejects the empty URL, so no exchange with it ends in CURLE_OK.
WebhookOutcomes(url) ==
    IF url = "" THEN {o \in CurlOutcomes : o.res # "CURLE_OK"} ELSE CurlOutcomes

\* How the caller's cycle ended, from the place createBackup returned at:
\* "none" while it runs, "Skipped" at the in-progress return, "ArchiveFailed"
\* at the `result != 0` return, "UploadFailed" when uploadToFileIO or the
\* multipart sendToWebhook gave false, "RelayFailed" when the sendToWebhook
\* of the link gave false, "Success" when sendToWebhook gave true.
CycleResult(t) ==
    IF ret[t] = "none" THEN "none"
    ELSE IF ret[t] = "true" THEN "Success"
    ELSE IF steps[t] = <<>> THEN "Skipped"
    ELSE IF posts[t] # <<>> THEN
        IF posts[t][1].multipart THEN "UploadFailed" ELSE "RelayFailed"
    ELSE IF uploads[t] # <<>> THEN "UploadFailed"
    ELSE "ArchiveFailed"

\* A call of createBackup: fresh locals, and a fresh record of the cycle.
CallCreateBackup(t) ==
    /\ pc' = [pc EXCEPT ![t] = "entered"]
    /\ result' = [result EXCEPT ![t] = -1]
    /\ fileSize' = [fileSize EXCEPT ![t] = [num |-> 0, den |-> BytesPerMB]]
    /\ webhookUrl' = [webhookUrl EXCEPT ![t] = ""]
    /\ fileioLink' = [fileioLink EXCEPT ![t] = ""]
    /\ ret' = [ret EXCEPT ![t] = "none"]
    /\ steps' = [steps EXCEPT ![t] = <<>>]
    /\ uploads' = [uploads EXCEPT ![t] = <<>>]
    /\ posts' = [posts EXCEPT ![t] = <<>>]
    /\ out' = [out EXCEPT ![t] = <<>>]

\* ------------------------------------------------------------------- Init
\* The state when main begins, with one of `files` as config.json.  The
\* constructor sets isBackupInProgress only; cooldownMinutes is not read
\* before loadConfig assigns it.
InitWith(files) ==
    /\ configFile \in files
    /\ cooldownMinutes = 0
    /\ pc = [t \in Callers |-> IF t = Main THEN "boot" ELSE "idle"]
    /\ exitCode = -1
    /\ folderToBackup = ""
    /\ backupFolder = ""
    /\ webhooks = <<>>
    /\ isBackupInProgress = FALSE
    /\ artifact = NoFile
    /\ result = [t \in Callers |-> -1]
    /\ fileSize = [t \in Callers |-> [num |-> 0, den |-> BytesPerMB]]
    /\ webhookUrl = [t \in Callers |-> ""]
    /\ fileioLink = [t \in Callers |-> ""]
    /\ ret = [t \in Callers |-> "none"]
    /\ steps = [t \in Callers |-> <<>>]
    /\ uploads = [t \in Callers |-> <<>>]
    /\ posts = [t \in Callers |-> <<>>]
    /\ out = [t \in Callers |-> <<>>]
    /\ previous = "none"

Init == InitWith(ConfigFiles)

TickInit == InitWith(TickConfigFiles)

\* ---------------------------------------------------------------- actions
\* main: loadConfig("config.json"); on failure main returns 1.
LoadConfig ==
    /\ pc[Main] = "boot"
    /\ IF LoadConfigOk(configFile)
       THEN /\ folderToBackup' = "/data"
            /\ backupFolder' = ConfiguredBackupFolder(configFile)
            /\ webhooks' = configFile.webhooks
            /\ cooldownMinutes' = ParseCooldown(CooldownStr(configFile)).value
            /\ exitCode' = exitCode
            /\ pc' = [pc EXCEPT ![Main] = "start"]
       ELSE /\ exitCode' = 1
            /\ pc' = [pc EXCEPT ![Main] = "exited"]
            /\ UNCHANGED <<folderToBackup, backupFolder, webhooks, cooldownMinutes>>
    /\ UNCHANGED <<configFile, isBackupInProgress, artifact, locals, ret, history, previous>>

\* start(): the banner, then the first createBackup() of while (true).
Start ==
    /\ pc[Main] = "start"
    /\ CallCreateBackup(Main)
    /\ UNCHANGED <<config, isBackupInProgress, artifact, previous>>

\* start(): sleep_for returns and the loop calls createBackup() again.
Wake ==
    /\ pc[Main] = "sleeping"
    /\ previous' = CycleResult(Main)
    /\ CallCreateBackup(Main)
    /\ UNCHANGED <<config, isBackupInProgress, artifact>>

\* A second tick enters createBackup, whatever the loop is doing.
FireTick ==
    /\ pc[Tick] = "idle"
    /\ pc[Main] \notin {"boot", "start", "exited"}
    /\ CallCreateBackup(Tick)
    /\ UNCHANGED <<config, isBackupInProgress, artifact, previous>>

\* createBackup: if (isBackupInProgress) { log; return false; }
CheckInProgress(t) ==
    /\ pc[t] = "entered"
    /\ IF isBackupInProgress
       THEN /\ out' = [out EXCEPT ![t] = Append(@, "Backup is already in progress.")]
            /\ ret' = [ret EXCEPT ![t] = "false"]
            /\ pc' = [pc EXCEPT ![t] = Returned(t)]
       ELSE /\ pc' = [pc EXCEPT ![t] = "begin"]
            /\ UNCHANGED <<out, ret>>
    /\ UNCHANGED <<previous, config, isBackupInProgress, artifact, locals, steps, uploads, posts>>

\* createBackup: isBackupInProgress = true; then std::system(cmd) is invoked.
BeginArchive(t) ==
    /\ pc[t] = "begin"
    /\ isBackupInProgress' = TRUE
    /\ steps' = [steps EXCEPT ![t] = Append(@, "archive")]
    /\ pc' = [pc EXCEPT ![t] = "archiving"]
    /\ UNCHANGED <<previous, config, artifact, locals, ret, uploads, posts, out>>

\* createBackup: std::system returns; the flag is cleared; a non-zero exit
\* code ends the cycle with "Error creating backup."
ArchiveReturns(t) ==
    /\ pc[t] = "archiving"
    /\ \E code \in {0, 1, 2} :
        /\ result' = [result EXCEPT ![t] = code]
        /\ isBackupInProgress' = FlagAfterArchive(code)
        /\ steps' = [steps EXCEPT ![t] = Append(@, "archived")]
        /\ IF ArchiveFailed(code)
           THEN /\ artifact' = artifact
                /\ out' = [out EXCEPT ![t] = Append(@, "Error creating backup.")]
                /\ ret' = [ret EXCEPT ![t] = "false"]
                /\ pc' = [pc EXCEPT ![t] = Returned(t)]
           ELSE /\ artifact' \in ArtifactSizes \cup {NoFile}
                /\ out' = [out EXCEPT ![t] = Append(@, "Backup created successfully.")]
                /\ ret' = ret
                /\ pc' = [pc EXCEPT ![t] = "sizing"]
    /\ UNCHANGED <<previous, config, fileSize, webhookUrl, fileioLink, uploads, posts>>

\* createBackup: fileSize = getFileSizeInMB(backupFilePath);
\*               webhookUrl = getRandomWebhook();
EvaluateSize(t) ==
    /\ pc[t] = "sizing"
    /\ fileSize' = [fileSize EXCEPT ![t] = GetFileSizeInMB(artifact)]
    /\ \E url \in GetRandomWebhook(webhooks) :
        webhookUrl' = [webhookUrl EXCEPT ![t] = url]
    /\ steps' = [steps EXCEPT ![t] = @ \o <<"size", "select">>]
    /\ pc' = [pc EXCEPT ![t] = "routing"]
    /\ UNCHANGED <<previous, config, isBackupInProgress, artifact, result, fileioLink,
                   ret, uploads, posts, out>>

\* createBackup: if (fileSize >= MAX_DIRECT_UPLOAD_SIZE) uploadToFileIO(...)
\*               else sendToWebhook(webhookUrl, backupFilePath)
Route(t) ==
    /\ pc[t] = "routing"
    /\ IF UsesRelay(fileSize[t])
       THEN /\ steps' = [steps EXCEPT ![t] = Append(@, "relay")]
            /\ pc' = [pc EXCEPT ![t] = "uploading"]
       ELSE /\ steps' = [steps EXCEPT ![t] = Append(@, "direct")]
            /\ pc' = [pc EXCEPT ![t] = "posting_file"]
    /\ UNCHANGED <<previous, config, isBackupInProgress, artifact, locals, ret, uploads,
                   posts, out>>

\* uploadToFileIO(backupFilePath, fileioLink) returns; on true createBackup
\* goes on to sendToWebhook(webhookUrl, fileioLink, true), on false it
\* returns false.
UploadToFileIO(t) ==
    /\ pc[t] = "uploading"
    /\ \E o \in CurlOutcomes, r \in FileHostResponses :
        /\ uploads' = [uploads EXCEPT ![t] =
               Append(@, [file |-> BackupFilePath(backupFolder),
                          res |-> o.res, http |-> o.http,
                          json |-> o.res = "CURLE_OK" /\ r.json,
                          link |-> IF o.res = "CURLE_OK" THEN r.link ELSE "none",
                          value |-> IF o.res = "CURLE_OK" THEN r.value ELSE ""])]
        /\ steps' = [steps EXCEPT ![t] = Append(@, "filehost")]
        /\ IF UploadOk(o, r)
           THEN /\ fileioLink' = [fileioLink EXCEPT ![t] = r.value]
                /\ pc' = [pc EXCEPT ![t] = "posting_link"]
                /\ ret' = ret
           ELSE /\ fileioLink' = fileioLink
                /\ pc' = [pc EXCEPT ![t] = AfterUploadFailure(t)]
                /\ ret' = [ret EXCEPT ![t] = "false"]
    /\ UNCHANGED <<previous, config, isBackupInProgress, artifact, result, fileSize,
                   webhookUrl, posts, out>>

\* sendToWebhook returns, and createBackup returns its value.
SendToWebhook(t) ==
    /\ pc[t] \in {"posting_file", "posting_link"}
    /\ \E o \in WebhookOutcomes(webhookUrl[t]) :
        /\ posts' = [posts EXCEPT ![t] =
               Append(@, WebhookRequest(webhookUrl[t],
                          IF pc[t] = "posting_link"
                          THEN LinkPostFilepath(fileioLink[t],
                                                BackupFilePath(backupFolder))
                          ELSE BackupFilePath(backupFolder),
                          pc[t] = "posting_link", o))]
        /\ ret' = [ret EXCEPT ![t] = Bool(SendResult(o))]
    /\ steps' = [steps EXCEPT ![t] = Append(@, "post")]
    /\ pc' = [pc EXCEPT ![t] = Returned(t)]
    /\ UNCHANGED <<previous, config, isBackupInProgress, artifact, locals, uploads, out>>

CreateBackup(t) ==
    \/ CheckInProgress(t)
    \/ BeginArchive(t)
    \/ ArchiveReturns(t)
    \/ EvaluateSize(t)
    \/ Route(t)
    \/ UploadToFileIO(t)
    \/ SendToWebhook(t)

\* ---------------------------------------------------------- specifications
\* The program: main, then the single loop of start().
Next ==
    \/ LoadConfig
    \/ Start
    \/ Wake
    \/ CreateBackup(Main)

Spec == Init /\ [][Next]_vars

\* The program when every blocking step (the archive command, an HTTP
\* exchange, sleep_for) eventually returns.
FairSpec == Spec /\ WF_vars(Next)

\* The program with a second tick that may enter createBackup at any time.
TickNext ==
    \/ Next
    \/ FireTick
    \/ CreateBackup(Tick)

TickSpec == TickInit /\ [][TickNext]_vars

\* ------------------------------------------------------------- the claims
\* The positions at which a cycle is executing one of its steps: the archive
\* command, the size evaluation and routing, a file-host upload, a webhook post.
Executing ==
    {"archiving", "sizing", "routing", "uploading", "posting_file", "posting_link"}

\* The loop's cycle is over: createBackup has returned.
Finished == pc[Main] = "sleeping" /\ ret[Main] # "none"

Range(f) == {f[i] : i \in DOMAIN f}

Count(seq, x) == Cardinality({i \in DOMAIN seq : seq[i] = x})

MultipartPosts(t) == {i \in DOMAIN posts[t] : posts[t][i].multipart}

\* C1: after a successful archive, an artifact of s bytes with
\* s >= 23 * 1024 * 1024 is relayed (one file-host upload, never a multipart
\* post) and one with s below it is uploaded directly (one multipart post,
\* never a file-host upload); exactly 23 MiB is relayed.
C1_RoutingBySize ==
    (result[Main] = 0 /\ artifact # NoFile) =>
        /\ artifact >= 23 * 1024 * 1024 => MultipartPosts(Main) = {}
        /\ artifact < 23 * 1024 * 1024 => uploads[Main] = <<>>
        /\ Finished =>
            IF artifact >= 23 * 1024 * 1024
            THEN Len(uploads[Main]) = 1 /\ Count(steps[Main], "relay") = 1
            ELSE /\ Len(posts[Main]) = 1 /\ MultipartPosts(Main) = {1}
                 /\ Count(steps[Main], "direct") = 1

C1_Witness ==
    /\ Finished
    /\ result[Main] = 0
    /\ artifact = 23 * 1024 * 1024
    /\ Len(uploads[Main]) = 1
    /\ MultipartPosts(Main) = {}

\* C2: whenever a cycle is executing one of its steps (archive command,
\* file-host upload, webhook post), isBackupInProgress is true.
C2_FlagHeldWhileExecuting ==
    pc[Main] \in {"archiving", "uploading", "posting_file", "posting_link"}
        => isBackupInProgress

\* C3: a caller that enters createBackup while another caller's cycle is
\* executing returns at once without invoking the archive command; so at most
\* one caller is ever executing archive or delivery steps.
C3_SingleFlight ==
    [][\A t \in Callers :
         (/\ pc[t] = "entered"
          /\ pc'[t] # "entered"
          /\ \E u \in Callers \ {t} : pc[u] \in Executing)
         => (pc'[t] = Returned(t) /\ steps'[t] = <<>>)]_vars

\* The file-host upload of the record failed: a transport error (or no
\* handle), or a response that is not JSON with a string `link`.
UploadFailed(u) == u.res # "CURLE_OK" \/ ~u.json \/ u.link # "string"

\* C4: when the file-host upload fails, the cycle is over and has failed: it
\* made no webhook post of either kind and exactly that one upload.
C4_UploadFailureEndsCycle ==
    (uploads[Main] # <<>> /\ UploadFailed(uploads[Main][1])) =>
        /\ Finished
        /\ ret[Main] = "false"
        /\ posts[Main] = <<>>
        /\ Len(uploads[Main]) = 1

C4_Witness ==
    /\ Len(uploads[Main]) = 1
    /\ uploads[Main][1].res = "CURLE_OK"
    /\ uploads[Main][1].json
    /\ uploads[Main][1].link = "number"
    /\ Finished

\* C5: with an empty `webhooks` list no cycle invokes the archiver, uploads
\* to the file host or posts to a webhook.
C5_EmptyEndpointsFailFast ==
    (pc[Main] \notin {"boot", "exited"} /\ webhooks = <<>>) =>
        /\ steps[Main] = <<>>
        /\ uploads[Main] = <<>>
        /\ posts[Main] = <<>>

\* C6: whatever the outcome of a cycle (Success, ArchiveFailed, UploadFailed,
\* RelayFailed), if every blocking step eventually returns then the loop
\* starts another cycle, and that cycle is not skipped: it invokes the
\* archive command.
C6_NextCycleRuns ==
    \A o \in {"Success", "ArchiveFailed", "UploadFailed", "RelayFailed"} :
        (Finished /\ CycleResult(Main) = o)
            ~> (pc[Main] = "archiving" /\ previous = o)

C6_Witness ==
    /\ previous = "RelayFailed"
    /\ pc[Main] = "archiving"
    /\ steps[Main] = <<"archive">>

\* Every occurrence of step b in the cycle comes after an occurrence of a.
Precedes(seq, a, b) ==
    \A j \in DOMAIN seq : seq[j] = b => \E i \in 1..(j - 1) : seq[i] = a

\* C7: in a cycle the archive command returns before the size is evaluated,
\* the size is evaluated before the route is decided, and the route is
\* decided before any HTTP exchange; after a non-zero exit code the cycle has
\* failed with no size evaluation, no endpoint selection and no exchange.
C7_StepOrder ==
    /\ Precedes(steps[Main], "archive", "archived")
    /\ Precedes(steps[Main], "archived", "size")
    /\ Precedes(steps[Main], "size", "relay")
    /\ Precedes(steps[Main], "size", "direct")
    /\ Precedes(steps[Main], "relay", "filehost")
    /\ \A j \in DOMAIN steps[Main] : steps[Main][j] = "post" =>
           \E i \in 1..(j - 1) : steps[Main][i] \in {"relay", "direct"}
    /\ Len(uploads[Main]) = Count(steps[Main], "filehost")
    /\ Len(posts[Main]) = Count(steps[Main], "post")
    /\ (result[Main] \notin {-1, 0}) =>
           /\ steps[Main] = <<"archive", "archived">>
           /\ Finished
           /\ ret[Main] = "false"
           /\ CycleResult(Main) = "ArchiveFailed"

C7_Witness ==
    /\ result[Main] = 2
    /\ Finished
    /\ steps[Main] = <<"archive", "archived">>
    /\ out[Main] = <<"Error creating backup.">>

\* C8: in one cycle the archive command is invoked at most once, the file
\* host is uploaded to at most once, the endpoint is selected at most once
\* and at most one webhook post is made.
C8_NoRetryWithinCycle ==
    /\ Count(steps[Main], "archive") <= 1
    /\ Count(steps[Main], "filehost") <= 1
    /\ Len(uploads[Main]) <= 1
    /\ Count(steps[Main], "select") <= 1
    /\ Count(steps[Main], "post") <= 1
    /\ Len(posts[Main]) <= 1

C8_Witness ==
    /\ Finished
    /\ Len(uploads[Main]) = 1
    /\ uploads[Main][1].res = "CURLE_ERR"
    /\ posts[Main] = <<>>
    /\ Count(steps[Main], "archive") = 1

\* C9: a cycle with a successful archive, an artifact below 23 MiB and a
\* non-empty endpoint list makes exactly one multipart post, to a configured
\* endpoint, of the file backupFolder/backup.7z, and returns true exactly
\* when that exchange ended without a transport error.
C9_DirectUpload ==
    (/\ Finished
     /\ result[Main] = 0
     /\ artifact # NoFile
     /\ artifact < 23 * 1024 * 1024
     /\ webhooks # <<>>) =>
        /\ Len(posts[Main]) = 1
        /\ posts[Main][1].multipart
        /\ posts[Main][1].url \in Range(webhooks)
        /\ posts[Main][1].file = backupFolder \o "/backup.7z"
        /\ ret[Main] = "true" <=> posts[Main][1].res = "CURLE_OK"

C9_Witness ==
    /\ Finished
    /\ artifact = 5 * 1024 * 1024
    /\ Len(webhooks) = 2
    /\ Len(posts[Main]) = 1
    /\ posts[Main][1].url = webhooks[2]
    /\ ret[Main] = "true"

\* C10: when the file-host upload succeeds with a string link L, the cycle
\* makes exactly one webhook post, to a configured endpoint, with a JSON body
\* whose `content` contains L.
C10_RelayedLinkPost ==
    (/\ Finished
     /\ Len(uploads[Main]) = 1
     /\ ~UploadFailed(uploads[Main][1])) =>
        /\ Len(posts[Main]) = 1
        /\ posts[Main][1].url \in Range(webhooks)
        /\ ~posts[Main][1].multipart
        /\ Contains(posts[Main][1].content, uploads[Main][1].value)

\* The webhook posts of the cycle that carry a JSON message.
LinkPosts(t) == {i \in DOMAIN posts[t] : ~posts[t][i].multipart}

Exchanges(t) ==
    {[res |-> uploads[t][i].res, http |-> uploads[t][i].http] : i \in DOMAIN uploads[t]}
    \cup {[res |-> posts[t][i].res, http |-> posts[t][i].http] : i \in DOMAIN posts[t]}

\* C12, as claimed: a cycle one of whose exchanges got a non-success HTTP
\* response, or failed in transport, does not end in Success.
C12_HttpFailureFailsCycle ==
    (\E x \in Exchanges(Main) : x.res # "CURLE_OK" \/ x.http # "2xx") =>
        CycleResult(Main) # "Success"

\* C12, amended: a cycle one of whose exchanges failed in transport
\* (curl_easy_perform did not return CURLE_OK, or there was no handle) is
\* over and has not ended in Success; the HTTP status is not examined.
C12_TransportFailureFailsCycle ==
    (\E x \in Exchanges(Main) : x.res # "CURLE_OK") =>
        /\ Finished
        /\ ret[Main] = "false"
        /\ CycleResult(Main) \in {"UploadFailed", "RelayFailed"}

C12_Witness ==
    /\ Len(uploads[Main]) = 1
    /\ uploads[Main][1].res = "CURLE_OK"
    /\ Len(posts[Main]) = 1
    /\ posts[Main][1].res = "CURLE_ERR"
    /\ CycleResult(Main) = "RelayFailed"

\* C13: a finished cycle has written a line that identifies its outcome; a
\* cycle that failed in the upload or the post has written a failure line,
\* one that a successful cycle does not write.
C13_OutcomeLogged ==
    (Finished /\ CycleResult(Main) \in {"UploadFailed", "RelayFailed"}) =>
        \E i \in DOMAIN out[Main] : out[Main][i] # "Backup created successfully."

\* C18: under the single loop isBackupInProgress is false whenever
\* createBackup is entered, the in-progress branch is never taken, and every
\* finished cycle has invoked the archive command.
C18_NeverSkipped ==
    /\ pc[Main] = "entered" => ~isBackupInProgress
    /\ \A i \in DOMAIN out[Main] : out[Main][i] # "Backup is already in progress."
    /\ CycleResult(Main) # "Skipped"
    /\ previous # "Skipped"
    /\ Finished => Count(steps[Main], "archive") = 1

C18_Witness ==
    /\ previous = "ArchiveFailed"
    /\ pc[Main] = "sleeping"
    /\ CycleResult(Main) = "UploadFailed"
    /\ Count(steps[Main], "archive") = 1

\* C19: when the archive command exits with 0 and the artifact's size cannot
\* be read, the size is 0, the cycle takes the direct route and makes a
\* multipart post of backupFolder/backup.7z to the selected endpoint.
C19_UnreadableSizeIsDirect ==
    (result[Main] = 0 /\ artifact = NoFile) =>
        /\ uploads[Main] = <<>>
        /\ Count(steps[Main], "relay") = 0
        /\ Count(steps[Main], "size") = 1 => fileSize[Main].num = 0
        /\ Finished =>
            /\ Len(posts[Main]) = 1
            /\ posts[Main][1].multipart
            /\ posts[Main][1].file = backupFolder \o "/backup.7z"
            /\ posts[Main][1].url = webhookUrl[Main]
            /\ CycleResult(Main) \in {"Success", "UploadFailed"}

C19_Witness ==
    /\ Finished
    /\ result[Main] = 0
    /\ artifact = NoFile
    /\ Len(posts[Main]) = 1
    /\ posts[Main][1].url = Url(1)
    /\ CycleResult(Main) = "Success"

\* C14: a cycle of the loop starts only out of start() or out of a sleep;
\* a sleep starts only when createBackup returns, with the outcome
\* determined; and a sleep ends only with the start of the next cycle.  So
\* one sleep, begun after the outcome, lies between any two cycles.
C14_SleepBetweenCycles ==
    [][/\ (pc'[Main] = "entered" /\ pc[Main] # "entered")
           => pc[Main] \in {"start", "sleeping"}
       /\ (pc'[Main] = "sleeping" /\ pc[Main] # "sleeping")
           => (/\ pc[Main] \in Executing \cup {"entered"}
               /\ ret[Main] = "none"
               /\ ret'[Main] # "none")
       /\ pc[Main] = "sleeping"
           => (/\ pc'[Main] \in {"sleeping", "entered"}
               /\ ret[Main] # "none"
               /\ pc'[Main] = "entered" => previous' = CycleResult(Main))]_vars

C14_Witness ==
    /\ previous = "Success"
    /\ pc[Main] = "sleeping"
    /\ cooldownMinutes = 15
    /\ CycleResult(Main) = "ArchiveFailed"

\* config.json has one of the defects the claim lists.
ConfigDefect(f) ==
    ~f.parses \/ ~f.hasFolderToBackup \/ ~f.hasWebhooks \/ ~f.dirOk

\* C15: when config.json is unreadable or malformed, lacks folderToBackup or
\* webhooks, or the destination directory cannot be created, main returns 1
\* and nothing has run: no archive command, no upload, no post.  When the
\* configuration has loaded, main never returns.
C15_StartupFailureExits ==
    /\ (pc[Main] # "boot" /\ ConfigDefect(configFile))
           => (pc[Main] = "exited" /\ exitCode = 1)
    /\ pc[Main] = "exited"
           => /\ exitCode = 1
              /\ steps[Main] = <<>> /\ uploads[Main] = <<>> /\ posts[Main] = <<>>
              /\ out[Main] = <<>>
              /\ artifact = NoFile
              /\ ~isBackupInProgress
    /\ pc[Main] # "exited" => exitCode = -1

C15_Witness ==
    /\ pc[Main] = "exited"
    /\ exitCode = 1
    /\ configFile.parses /\ configFile.hasFolderToBackup /\ ~configFile.hasWebhooks
    /\ configFile.dirOk

\* str is "*/n", alone or followed by the other four cron fields.
IsStepOf(str, n) ==
    str \in {"*/" \o ToString(n), "*/" \o ToString(n) \o " * * * *"}

\* The interval the claim gives a `cooldownDuration` string: N for the */N
\* form (N of either sign, up to an hour), 60 for every other string.
ClaimedInterval(str) ==
    IF \E n \in -60..60 : IsStepOf(str, n)
    THEN CHOOSE n \in -60..60 : IsStepOf(str, n)
    ELSE 60

\* C16: with a config.json that is sound otherwise, loadConfig succeeds
\* whatever `cooldownDuration` is, and the interval is N for the form
\* "*/N * * * *", 60 for any other string and 60 when the key is absent.
C16_IntervalParsing ==
    (pc[Main] # "boot" /\ ~ConfigDefect(configFile)) =>
        /\ pc[Main] # "exited"
        /\ cooldownMinutes =
               IF configFile.hasCooldown
               THEN ClaimedInterval(configFile.cooldownDuration)
               ELSE 60

\* C17: once loadConfig has succeeded, cooldownMinutes is positive.
C17_IntervalPositive ==
    pc[Main] \notin {"boot", "exited"} => cooldownMinutes > 0

====
